---- MODULE Spec2Model ----
(***************************************************************************)
(* A model of supreme_agent.py: the resource manager (SystemResources),    *)
(* the progress indicator (TranslationProgress), the task analyzer, the    *)
(* agent factory, the orchestrator and the interaction loop.               *)
(*                                                                         *)
(* Texts that the code inspects character by character (the task, the      *)
(* search results, the error texts) are sequences of one-character         *)
(* strings.  Names that the code only compares as wholes (agent names,     *)
(* tool names, file names, log tags) are TLA+ strings.                     *)
(*                                                                         *)
(* External collaborators are nondeterministic: the hosted model, the      *)
(* browser driver, the conversation framework and the process launcher     *)
(* each yield any of the outcomes listed in the sets below.  Exceptions    *)
(* are those of class Exception; webdriver.quit(), Thread.start(),         *)
(* Thread.join() and the logging calls are taken not to raise.             *)
(***************************************************************************)
EXTENDS Naturals, Sequences, FiniteSets

(***************************************************************************)
(* Bounds of the model.                                                    *)
(***************************************************************************)
\* tool calls the conversation framework may make within one run primitive
MaxToolCalls == 2

(***************************************************************************)
(* Text: str.lower(), the `in` operator on strings, concatenation.         *)
(***************************************************************************)
UpperCase == <<"A", "B", "C", "D", "E", "F", "G", "H", "I", "J", "K", "L", "M",
               "N", "O", "P", "Q", "R", "S", "T", "U", "V", "W", "X", "Y", "Z">>

LowerCase == <<"a", "b", "c", "d", "e", "f", "g", "h", "i", "j", "k", "l", "m",
               "n", "o", "p", "q", "r", "s", "t", "u", "v", "w", "x", "y", "z">>

LowerChar(c) ==
    IF \E i \in 1..Len(UpperCase) : UpperCase[i] = c
    THEN LowerCase[CHOOSE i \in 1..Len(UpperCase) : UpperCase[i] = c]
    ELSE c

\* a str.lower() that forgets to fold the case
LowerIdentity(s) == s

\* str.lower()
Lower(s) == [i \in 1..Len(s) |-> LowerChar(s[i])]

\* `sub in s` for two strings
Contains(s, sub) ==
    \E i \in 0..(Len(s) - Len(sub)) :
        \A j \in 1..Len(sub) : s[i + j] = sub[j]

T_search == <<"s", "e", "a", "r", "c", "h">>
T_find   == <<"f", "i", "n", "d">>
T_exit   == <<"e", "x", "i", "t">>
T_Error  == <<"E", "r", "r", "o", "r">>

(***************************************************************************)
(* Inputs: the lines a user may type.                                      *)
(***************************************************************************)
Tasks ==
    { <<"f", "i", "n", "d", " ", "x">>, <<"S", "E", "A", "R", "C", "H">>, <<"w", "r", "i", "t", "e", " ", "c", "o", "d", "e">>, <<"e", "x", "i", "t">>, <<"E", "x", "i", "t">> }

(***************************************************************************)
(* Python values as json.loads yields them.                                *)
(***************************************************************************)
PyNone      == [kind |-> "none"]
PyInt       == [kind |-> "int"]
PyStr(s)    == [kind |-> "str", chars |-> s]
PyList(xs)  == [kind |-> "list", items |-> xs]
PyDict(f)   == [kind |-> "dict", fields |-> f]

EmptyDict == [k \in {} |-> PyNone]

(***************************************************************************)
(* AgentConfig and the two configurations the analyzer builds itself.      *)
(***************************************************************************)
ConfigRequired == {"name", "instructions", "tools"}
ConfigFields   == ConfigRequired \cup {"next_agent"}

\* AgentConfig(**config): a TypeError unless config is a mapping whose keys
\* are fields of the dataclass and include the three without a default
Deserializable(v) ==
    /\ v.kind = "dict"
    /\ ConfigRequired \subseteq DOMAIN v.fields
    /\ DOMAIN v.fields \subseteq ConfigFields

AgentConfig(v) ==
    [name         |-> v.fields.name,
     instructions |-> v.fields.instructions,
     tools        |-> v.fields.tools,
     next_agent   |-> IF "next_agent" \in DOMAIN v.fields
                      THEN v.fields.next_agent ELSE "None"]

SearchConfig ==
    [name         |-> "search_agent",
     instructions |-> "Use browser_search to find the requested information",
     tools        |-> PyList(<<"browser_search">>),
     next_agent   |-> "None"]

DefaultConfig ==
    [name         |-> "default_agent",
     instructions |-> "Complete the task using available tools",
     tools        |-> PyList(<<"browser_search">>),
     next_agent   |-> "None"]

(***************************************************************************)
(* The hosted model: what one chat.completions.create call can come to.    *)
(***************************************************************************)
ObjCoder ==
    PyDict([name |-> "coder_agent", instructions |-> "write the code",
            tools |-> PyList(<<"code_write", "terminal_run">>)])

ObjSearch ==
    PyDict([name |-> "search_agent", instructions |-> "search the web",
            tools |-> PyList(<<"browser_search">>),
            next_agent |-> "processing_agent"])

ObjProcessing ==
    PyDict([name |-> "processing_agent", instructions |-> "summarise",
            tools |-> PyList(<<>>)])

ObjSearchNoTool ==
    PyDict([name |-> "search_agent", instructions |-> "search the web",
            tools |-> PyList(<<"browser_open">>)])

ObjUnknownTools ==
    PyDict([name |-> "screenshot_agent", instructions |-> "take a picture",
            tools |-> PyList(<<"take_screenshot", "fly", "browser_open",
                               "take_screenshot">>)])

ObjToolsNone ==
    PyDict([name |-> "default_agent", instructions |-> "do it",
            tools |-> PyNone])

ObjMissingField ==
    PyDict([name |-> "coder_agent", instructions |-> "write the code"])

ObjExtraKey ==
    PyDict([name |-> "coder_agent", instructions |-> "write the code",
            tools |-> PyList(<<"code_write">>), role |-> "coder"])

\* the parsed bodies json.loads may return
JsonBodies ==
    { PyList(<<>>), PyDict(EmptyDict), PyStr(<<>>), PyStr(<<"o", "k">>), PyNone,
      PyInt, ObjCoder, PyList(<<PyInt>>),
      PyList(<<ObjCoder>>), PyList(<<ObjSearch, ObjProcessing>>),
      PyList(<<ObjCoder, ObjSearch>>), PyList(<<ObjSearchNoTool>>),
      PyList(<<ObjUnknownTools>>), PyList(<<ObjToolsNone>>),
      PyList(<<ObjMissingField>>), PyList(<<ObjCoder, ObjExtraKey>>) }

\* the request raises; the message has no content; the content is not JSON;
\* the content is JSON
ModelReplies ==
    { [kind |-> k, body |-> PyNone] :
          k \in {"request_error", "no_content", "not_json"} }
    \cup { [kind |-> "json", body |-> b] : b \in JsonBodies }

(***************************************************************************)
(* Task Analyzer.                                                          *)
(***************************************************************************)
\* "search" in task.lower() or "find" in task.lower()
IsSearchTask(task) ==
    Contains(Lower(task), T_search) \/ Contains(Lower(task), T_find)

\* [AgentConfig(**config) for config in configs]: iterating a list yields
\* its items, a dict its keys, a str its characters (none of which is a
\* mapping); anything else is not iterable
ParseConfigs(v) ==
    CASE v.kind = "list" ->
           IF \A i \in 1..Len(v.items) : Deserializable(v.items[i])
           THEN [raised |-> FALSE,
                 configs |-> [i \in 1..Len(v.items) |-> AgentConfig(v.items[i])]]
           ELSE [raised |-> TRUE, configs |-> <<>>]
      [] v.kind = "dict" ->
           [raised |-> DOMAIN v.fields # {}, configs |-> <<>>]
      [] v.kind = "str" ->
           [raised |-> Len(v.chars) > 0, configs |-> <<>>]
      [] OTHER -> [raised |-> TRUE, configs |-> <<>>]

\* the try block after the keyword check: request, content, json.loads,
\* construction
ModelConfigs(reply) ==
    IF reply.kind = "json"
    THEN ParseConfigs(reply.body)
    ELSE [raised |-> TRUE, configs |-> <<>>]

\* the rest of analyze_task once the reply is in: the configurations built
\* from it, or the default configuration and an error record
AnalyzeReply(r) ==
    LET c == ModelConfigs(r)
    IN  IF c.raised
        THEN [configs |-> <<DefaultConfig>>,
              log |-> <<"ERROR Task analysis error">>]
        ELSE [configs |-> c.configs, log |-> <<>>]

(***************************************************************************)
(* Tool Registry and Agent Factory.                                        *)
(***************************************************************************)
available_tools ==
    {"browser_open", "browser_search", "code_write", "code_save",
     "terminal_run", "git_command", "take_screenshot"}

\* tools whose call touches no field of SystemResources
StatelessTools ==
    {"code_save", "terminal_run", "git_command", "take_screenshot"}

\* an agent factory that binds every tool the configuration lists
BindAllListed(tools) == {tools.items[i] : i \in 1..Len(tools.items)}

\* the keys of agent_functions after the loop over config.tools
BoundTools(tools) ==
    {tools.items[i] : i \in {j \in 1..Len(tools.items) :
                                 tools.items[j] \in available_tools}}

\* create_specialized_agent: iterating config.tools raises a TypeError
\* when it is not a list
CreateSpecializedAgent(config) ==
    IF config.tools.kind = "list"
    THEN [raised |-> FALSE, name |-> config.name,
          functions |-> BoundTools(config.tools)]
    ELSE [raised |-> TRUE, name |-> config.name, functions |-> {}]

\* get_system_message: the role the system message is written for
SystemRole(role) ==
    IF role \in {"search_agent", "processing_agent", "screenshot_agent"}
    THEN role ELSE "default_agent"

(***************************************************************************)
(* Resource Manager.  "None" stands for Python's None in the three         *)
(* handle fields.                                                          *)
(***************************************************************************)
T_FailedInit    == <<"F", "a", "i", "l", "e", "d", " ", "t", "o", " ", "i", "n", "i", "t", "i", "a", "l", "i", "z", "e", " ", "W", "e", "b", "D", "r", "i", "v", "e", "r">>
T_SearchError   == <<"B", "r", "o", "w", "s", "e", "r", " ", "s", "e", "a", "r", "c", "h", " ", "e", "r", "r", "o", "r", ":", " ">>
T_Title         == <<"T", "i", "t", "l", "e", ":", " ">>
T_Url           == <<"\n", "U", "R", "L", ":", " ">>
T_Link          == <<"h", "t", "t", "p", ":", "/", "/", "a", ".", "b">>
T_TaskError     == <<"E", "r", "r", "o", "r", " ", "e", "x", "e", "c", "u", "t", "i", "n", "g", " ", "t", "a", "s", "k", ":", " ">>
T_KeyError      == <<"'", "b", "r", "o", "w", "s", "e", "r", "_", "s", "e", "a", "r", "c", "h", "'">>
T_NoQuit        == <<"'", "N", "o", "n", "e", "T", "y", "p", "e", "'", " ", "o", "b", "j", "e", "c", "t", " ", "h", "a", "s", " ", "n", "o", " ", "a", "t", "t", "r", "i", "b", "u", "t", "e", " ", "'", "q", "u", "i", "t", "'">>
T_NotIterable   == <<"'", "N", "o", "n", "e", "T", "y", "p", "e", "'", " ", "o", "b", "j", "e", "c", "t", " ", "i", "s", " ", "n", "o", "t", " ", "i", "t", "e", "r", "a", "b", "l", "e">>

\* headings of the first result the page may show
Titles == { <<"P", "a", "r", "i", "s">>, <<"E", "r", "r", "o", "r", " ", "4", "0", "4">> }

\* str(e) of what the driver or the framework may raise
ExcMessages == { <<"M", "e", "s", "s", "a", "g", "e", ":", " ">>, <<"N", "e", "w", "C", "o", "n", "n", "e", "c", "t", "i", "o", "n", "E", "r", "r", "o", "r">> }

\* what the page does once a driver is there: it shows a result, or the
\* navigation, the wait or the extraction raises
PageOutcomes ==
    { [raises |-> FALSE, text |-> t] : t \in Titles }
    \cup { [raises |-> TRUE, text |-> m] : m \in ExcMessages }

\* a setup_webdriver that launches a driver although one is held
SetupAlwaysLaunches(b, launches) ==
    IF launches
    THEN [browser |-> "driver", created |-> 1]
    ELSE [browser |-> b, created |-> 0]

\* setup_webdriver: the handle afterwards (also the value returned) and the
\* number of drivers launched; `launches` is whether webdriver.Chrome()
\* succeeds if it is called
SetupWebdriver(b, launches) ==
    IF b # "None"
    THEN [browser |-> b, created |-> 0]
    ELSE IF launches
         THEN [browser |-> "driver", created |-> 1]
         ELSE [browser |-> "None", created |-> 0]

\* SystemResources.browser_search: the text returned, whether it came from
\* one of the two failure returns, and the handle afterwards
BrowserSearch(b, launches, page) ==
    LET s == SetupWebdriver(b, launches)
    IN  IF s.browser = "None"
        THEN [text |-> T_FailedInit, failed |-> TRUE,
              browser |-> s.browser, created |-> s.created]
        ELSE IF page.raises
             THEN [text |-> T_SearchError \o page.text, failed |-> TRUE,
                   browser |-> s.browser, created |-> s.created]
             ELSE [text |-> T_Title \o page.text \o T_Url \o T_Link,
                   failed |-> FALSE,
                   browser |-> s.browser, created |-> s.created]

\* a close_webdriver that quits the driver and keeps the handle
CloseKeepsHandle(b) ==
    [browser |-> b, quit |-> IF b # "None" THEN 1 ELSE 0, raised |-> FALSE]

\* a close_webdriver without the test of the handle: None has no quit()
CloseUnguarded(b) ==
    IF b # "None"
    THEN [browser |-> "None", quit |-> 1, raised |-> FALSE]
    ELSE [browser |-> b, quit |-> 0, raised |-> TRUE]

\* close_webdriver: the handle afterwards, the number of drivers quit and
\* whether the call raised
CloseWebdriver(b) ==
    IF b # "None"
    THEN [browser |-> "None", quit |-> 1, raised |-> FALSE]
    ELSE [browser |-> b, quit |-> 0, raised |-> FALSE]

editor_commands   == <<"code", "vscode", "codium">>
terminal_commands == <<"alacritty", "gnome-terminal", "xterm", "terminal">>
Filenames         == {"a.py", "b.py"}

\* what subprocess.Popen does with one command: it starts the process, it
\* raises FileNotFoundError, or it raises something else
PopenOutcomes == {"started", "not_found", "error"}

\* the loop over the launch commands, from command i on: the first command
\* that starts or raises something other than FileNotFoundError ends it
RECURSIVE TryCommands(_, _, _)
TryCommands(cmds, popen, i) ==
    IF i > Len(cmds)
    THEN [how |-> "exhausted", cmd |-> "None"]
    ELSE IF popen[i] = "not_found"
         THEN TryCommands(cmds, popen, i + 1)
         ELSE [how |-> popen[i], cmd |-> cmds[i]]

\* a maybe_open_editor that never looks at the marker
EditorIgnoresMarker(ed, filename, popen) ==
    LET t == TryCommands(editor_commands, popen, 1)
    IN  CASE t.how = "started" ->
               [editor |-> filename, launched |-> 1,
                ret |-> [msg |-> "Editor opened for", arg |-> filename]]
          [] t.how = "exhausted" ->
               [editor |-> ed, launched |-> 0,
                ret |-> [msg |-> "Failed to open editor", arg |-> ""]]
          [] OTHER ->
               [editor |-> ed, launched |-> 0,
                ret |-> [msg |-> "Error opening editor:", arg |-> ""]]

\* maybe_open_editor: the marker afterwards, the number of editor processes
\* launched and the status returned
MaybeOpenEditor(ed, filename, popen) ==
    IF ed = "None"
    THEN LET t == TryCommands(editor_commands, popen, 1)
         IN  CASE t.how = "started" ->
                    [editor |-> filename, launched |-> 1,
                     ret |-> [msg |-> "Editor opened for", arg |-> filename]]
               [] t.how = "exhausted" ->
                    [editor |-> ed, launched |-> 0,
                     ret |-> [msg |-> "Failed to open editor", arg |-> ""]]
               [] OTHER ->
                    [editor |-> ed, launched |-> 0,
                     ret |-> [msg |-> "Error opening editor:", arg |-> ""]]
    ELSE [editor |-> ed, launched |-> 0,
          ret |-> [msg |-> "Editor already open with", arg |-> filename]]

\* maybe_open_terminal: the marker afterwards, the number of terminal
\* processes launched and the status returned
MaybeOpenTerminal(term, popen) ==
    IF term = "None"
    THEN LET t == TryCommands(terminal_commands, popen, 1)
         IN  CASE t.how = "started" ->
                    [terminal |-> "terminal", launched |-> 1,
                     ret |-> [msg |-> "Terminal opened using", arg |-> t.cmd]]
               [] t.how = "exhausted" ->
                    [terminal |-> term, launched |-> 0,
                     ret |-> [msg |-> "Failed to open terminal", arg |-> ""]]
               [] OTHER ->
                    [terminal |-> term, launched |-> 0,
                     ret |-> [msg |-> "Error opening terminal:", arg |-> ""]]
    ELSE [terminal |-> term, launched |-> 0,
          ret |-> [msg |-> "Terminal already open", arg |-> ""]]

(***************************************************************************)
(* State.                                                                  *)
(***************************************************************************)
VARIABLES
    pc,                 \* where the main thread is
    task,               \* orchestrate_task's task (the line read)
    current_input,      \* orchestrate_task's current_input
    agent_configs,      \* the list analyze_task returned
    idx,                \* position of the for loop in agent_configs
    functions,          \* keys of agent.functions of the agent just built
    exc,                \* the exception raised inside the try block, if any
    result,             \* what orchestrate_task hands to its caller
    browser,            \* SystemResources.browser
    editor,             \* SystemResources.editor
    terminal,           \* SystemResources.terminal
    stop,               \* TranslationProgress._stop
    thread,             \* TranslationProgress._thread: "None", "alive", "finished"
    current_stage,      \* the indicator thread's current_stage
    driversAlive,       \* browser drivers launched and not quit
    editorsLaunched,    \* editor processes launched since process start
    terminalsLaunched,  \* terminal processes launched since process start
    editorFirst,        \* status returned by the first maybe_open_editor call
    editorLater,        \* status returned by the latest later call
    lastRet,            \* status returned by the latest maybe_open_terminal call
    log,                \* error records logged during the current run
    calls,              \* the orchestrator's own calls during the current run
    toolCalls,          \* tool calls made by the framework in the current step
    requests,           \* hosted-model requests issued during the current run
    reply,              \* what the hosted model answered in the current run
    output,             \* what the interaction loop printed last
    task_input,         \* run_interaction_loop's task_input (the line read)
    threadsAlive        \* indicator threads started and not yet ended

resVars  == <<browser, editor, terminal, driversAlive, editorsLaunched,
              terminalsLaunched, editorFirst, editorLater, lastRet>>
progVars == <<stop, thread, current_stage, threadsAlive>>
runVars  == <<task, current_input, agent_configs, idx, functions, exc,
              result, log, calls, toolCalls, requests, reply>>
loopVars == <<output, task_input>>
vars     == <<pc, runVars, resVars, progVars, loopVars>>

NoRet    == [msg |-> "None", arg |-> ""]
NoExc    == [raised |-> FALSE, msg |-> <<>>]
NoResult == [kind |-> "none", text |-> <<>>]
NoReply  == [kind |-> "none", body |-> PyNone]

Raised(msg) == [raised |-> TRUE, msg |-> msg]

\* SystemResources.__init__, TranslationProgress.__init__, and the locals
\* of a run that has not begun
Init ==
    /\ pc = "prompt"
    /\ task = <<>>
    /\ current_input = <<>>
    /\ agent_configs = <<>>
    /\ idx = 1
    /\ functions = {}
    /\ exc = NoExc
    /\ result = NoResult
    /\ browser = "None"
    /\ editor = "None"
    /\ terminal = "None"
    /\ stop = FALSE
    /\ thread = "None"
    /\ current_stage = 0
    /\ driversAlive = 0
    /\ editorsLaunched = 0
    /\ terminalsLaunched = 0
    /\ editorFirst = NoRet
    /\ editorLater = NoRet
    /\ lastRet = NoRet
    /\ log = <<>>
    /\ calls = <<>>
    /\ toolCalls = 0
    /\ requests = 0
    /\ reply = NoReply
    /\ output = "banner"
    /\ task_input = <<>>
    /\ threadsAlive = 0

(***************************************************************************)
(* Interaction loop.                                                       *)
(***************************************************************************)
\* input("> "), the exit test, and the call of orchestrate_task
ReadTask(line) ==
    /\ pc = "prompt"
    /\ task_input' = line
    /\ IF Lower(line) = T_exit
       THEN /\ pc' = "exited"
            /\ output' = "Goodbye!"
            /\ UNCHANGED <<runVars, resVars, progVars>>
       ELSE /\ pc' = "start"
            /\ task' = line
            /\ current_input' = line
            /\ UNCHANGED <<agent_configs, idx, functions, exc, result, log,
                           calls, toolCalls, requests, reply>>
            /\ UNCHANGED <<resVars, progVars, output>>

\* a loop whose handler gives up
LoopEndsOnError == "exited"

\* where the loop's except clause leaves the loop: at its head again
AfterInteractionError == "prompt"

\* input("> ") raises (end of input); the handler reports it
InputError ==
    /\ pc = "prompt"
    /\ pc' = AfterInteractionError
    /\ output' = "error"
    /\ UNCHANGED <<runVars, resVars, progVars, task_input>>

\* print("\nTask completed. Result:", result), or the loop's own handler
\* when the call raised; the locals of the finished call are gone and
\* task_input is dead until the next input()
Deliver ==
    /\ pc = "returned"
    /\ pc' = IF result.kind = "return" THEN "prompt" ELSE AfterInteractionError
    /\ output' = IF result.kind = "return" THEN "result" ELSE "error"
    /\ task_input' = <<>>
    /\ task' = <<>>
    /\ current_input' = <<>>
    /\ agent_configs' = <<>>
    /\ idx' = 1
    /\ functions' = {}
    /\ exc' = NoExc
    /\ result' = NoResult
    /\ log' = <<>>
    /\ calls' = <<>>
    /\ toolCalls' = 0
    /\ requests' = 0
    /\ reply' = NoReply
    /\ UNCHANGED <<resVars, progVars>>

(***************************************************************************)
(* Progress indicator.                                                     *)
(***************************************************************************)
stages == <<"Processing", "Analyzing", "Generating response">>

\* TranslationProgress.start()
ProgressStart ==
    /\ pc = "start"
    /\ stop' = FALSE
    /\ thread' = "alive"
    /\ current_stage' = 0
    /\ threadsAlive' = threadsAlive + 1
    /\ pc' = "analyze"
    /\ UNCHANGED <<runVars, resVars, loopVars>>

\* one iteration of _progress_indicator's loop
ProgressTick ==
    /\ thread = "alive"
    /\ ~stop
    /\ current_stage' = (current_stage + 1) % Len(stages)
    /\ UNCHANGED <<pc, runVars, resVars, stop, thread, threadsAlive,
                   loopVars>>

\* the loop test of _progress_indicator sees the flag; the thread ends
ProgressExit ==
    /\ thread = "alive"
    /\ stop
    /\ thread' = "finished"
    /\ current_stage' = 0
    /\ threadsAlive' = threadsAlive - 1
    /\ UNCHANGED <<pc, runVars, resVars, stop, loopVars>>

\* TranslationProgress.stop(): the flag
ProgressStop ==
    /\ pc = "finally"
    /\ stop' = TRUE
    /\ pc' = "join"
    /\ UNCHANGED <<runVars, resVars, thread, current_stage, threadsAlive,
                   loopVars>>

\* a stop() that does not wait for the thread
JoinSkipped(t) == TRUE

\* if self._thread: self._thread.join() -- when the call gets past it
JoinReturns(t) == t # "alive"

\* TranslationProgress.stop(): the join returns once the thread has ended
ProgressJoin ==
    /\ pc = "join"
    /\ JoinReturns(thread)
    /\ pc' = "close"
    /\ UNCHANGED <<runVars, resVars, progVars, loopVars>>

(***************************************************************************)
(* Orchestrator.                                                           *)
(***************************************************************************)
\* an orchestrator whose handler lets the exception through
Propagate(e) == [kind |-> "raise", text |-> e.msg]

\* the except clause of orchestrate_task: the value returned
HandleException(e) == [kind |-> "return", text |-> T_TaskError \o e.msg]

\* a search step that never returns early
NeverShortCircuits(text) == FALSE

\* the test that lets the search step return its result: "Error" not in result
ShortCircuits(text) == ~Contains(text, T_Error)

Call(op, arg, ret, failed) ==
    [op |-> op, idx |-> idx, arg |-> arg, ret |-> ret, failed |-> failed]

\* a variant that sends the request again when it failed
RetryOnFailure(r) == IF r.kind = "request_error" THEN 2 ELSE 1

\* speech_client.chat.completions.create is called once, whatever comes
\* of it: an exception goes to the fallback, not to another request
RequestsIssued(r) == 1

\* agent_configs = self.analyze_task(task), up to the hosted-model call:
\* the keyword test returns the search configuration, or the request is
\* issued and answered
AnalyzeTask ==
    /\ pc = "analyze"
    /\ IF IsSearchTask(task)
       THEN /\ agent_configs' = <<SearchConfig>>
            /\ idx' = 1
            /\ pc' = "loop"
            /\ UNCHANGED <<requests, reply>>
       ELSE /\ \E r \in ModelReplies :
                    /\ reply' = r
                    /\ requests' = requests + RequestsIssued(r)
            /\ pc' = "parse"
            /\ UNCHANGED <<agent_configs, idx>>
    /\ UNCHANGED <<task, current_input, functions, exc, result, log, calls,
                   toolCalls, resVars, progVars, loopVars>>

\* analyze_task from the reply to its return; the reply is a local of
\* analyze_task and is gone when it returns
AnalyzeReturn ==
    /\ pc = "parse"
    /\ LET a == AnalyzeReply(reply)
       IN  /\ agent_configs' = a.configs
           /\ log' = log \o a.log
    /\ reply' = NoReply
    /\ idx' = 1
    /\ pc' = "loop"
    /\ UNCHANGED <<task, current_input, functions, exc, result, calls,
                   toolCalls, requests, resVars, progVars, loopVars>>

\* the for loop is exhausted: return current_input
ReturnInput ==
    /\ pc = "loop"
    /\ idx > Len(agent_configs)
    /\ result' = [kind |-> "return", text |-> current_input]
    /\ pc' = "finally"
    /\ UNCHANGED <<task, current_input, agent_configs, idx, functions, exc,
                   log, calls, toolCalls, requests, reply, resVars, progVars, loopVars>>

\* the next configuration: create_specialized_agent, then the name test
CreateAgent ==
    /\ pc = "loop"
    /\ idx <= Len(agent_configs)
    /\ LET a == CreateSpecializedAgent(agent_configs[idx])
       IN  IF a.raised
           THEN /\ exc' = Raised(T_NotIterable)
                /\ pc' = "except"
                /\ UNCHANGED functions
           ELSE /\ functions' = a.functions
                /\ pc' = IF a.name = "search_agent" THEN "search" ELSE "generic"
                /\ UNCHANGED exc
    /\ UNCHANGED <<task, current_input, agent_configs, idx, result, log,
                   calls, toolCalls, requests, reply, resVars, progVars, loopVars>>

\* agent.functions["browser_search"] is not there: KeyError
SearchUnbound ==
    /\ pc = "search"
    /\ "browser_search" \notin functions
    /\ exc' = Raised(T_KeyError)
    /\ pc' = "except"
    /\ UNCHANGED <<task, current_input, agent_configs, idx, functions, result,
                   log, calls, toolCalls, requests, reply, resVars, progVars, loopVars>>

\* result = agent.functions["browser_search"](current_input), then either
\* return result or log the failure and go on to the generic handling
SearchStep ==
    /\ pc = "search"
    /\ "browser_search" \in functions
    /\ \E launches \in BOOLEAN, page \in PageOutcomes :
         LET s == BrowserSearch(browser, launches, page)
         IN  /\ browser' = s.browser
             /\ driversAlive' = driversAlive + s.created
             /\ calls' = Append(calls,
                                Call("browser_search", current_input, s.text,
                                     s.failed))
             /\ IF ShortCircuits(s.text)
                THEN /\ result' = [kind |-> "return", text |-> s.text]
                     /\ pc' = "finally"
                     /\ UNCHANGED log
                ELSE /\ log' = Append(log, "ERROR Search failed")
                     /\ pc' = "generic"
                     /\ UNCHANGED result
    /\ UNCHANGED <<task, current_input, agent_configs, idx, functions, exc,
                   toolCalls, requests, reply, editor, terminal, editorsLaunched,
                   terminalsLaunched, editorFirst, editorLater, lastRet,
                   progVars, loopVars>>

\* the two messages are built and swarm_client.run is entered
GenericStep ==
    /\ pc = "generic"
    /\ calls' = Append(calls,
                       Call(SystemRole(agent_configs[idx].name), current_input,
                            <<>>, FALSE))
    /\ toolCalls' = 0
    /\ pc' = "swarm"
    /\ UNCHANGED <<task, current_input, agent_configs, idx, functions, exc,
                   result, log, requests, reply, resVars, progVars, loopVars>>

\* what the final message of a run may say
SwarmOutputs == { <<"d", "o", "n", "e">>, <<"P", "a", "r", "i", "s", " ", "i", "s", " ", "t", "h", "e", " ", "c", "a", "p", "i", "t", "a", "l">> }

\* swarm_client.run returns; current_input = response.messages[-1]["content"]
SwarmReturn ==
    /\ pc = "swarm"
    /\ \E out \in SwarmOutputs :
         /\ current_input' = out
         /\ calls' = [calls EXCEPT ![Len(calls)].ret = out]
    /\ idx' = idx + 1
    /\ pc' = "loop"
    /\ UNCHANGED <<task, agent_configs, functions, exc, result, log,
                   toolCalls, requests, reply, resVars, progVars, loopVars>>

\* swarm_client.run raises, or its response has no last message
SwarmRaise ==
    /\ pc = "swarm"
    /\ \E m \in ExcMessages : exc' = Raised(m)
    /\ pc' = "except"
    /\ UNCHANGED <<task, current_input, agent_configs, idx, functions, result,
                   log, calls, toolCalls, requests, reply, resVars, progVars, loopVars>>

\* except Exception as e: log it and return the error text
Except ==
    /\ pc = "except"
    /\ log' = Append(log, "ERROR Task orchestration error")
    /\ result' = HandleException(exc)
    /\ pc' = "finally"
    /\ UNCHANGED <<task, current_input, agent_configs, idx, functions, exc,
                   calls, toolCalls, requests, reply, resVars, progVars, loopVars>>

\* finally: self.system.close_webdriver(), and control is back at the
\* caller; an exception raised here would replace the value being returned
Cleanup ==
    /\ pc = "close"
    /\ LET c == CloseWebdriver(browser)
       IN  /\ browser' = c.browser
           /\ driversAlive' = driversAlive - c.quit
           /\ result' = IF c.raised
                        THEN [kind |-> "raise", text |-> T_NoQuit]
                        ELSE result
    /\ pc' = "returned"
    /\ UNCHANGED <<task, current_input, agent_configs, idx, functions, exc,
                   log, calls, toolCalls, requests, reply, editor, terminal,
                   editorsLaunched, terminalsLaunched, editorFirst,
                   editorLater, lastRet, progVars, loopVars>>

(***************************************************************************)
(* The tools, as the conversation framework calls them within a run.       *)
(***************************************************************************)
ToolGuard(tool) ==
    /\ pc = "swarm"
    /\ tool \in functions
    /\ toolCalls < MaxToolCalls
    /\ toolCalls' = toolCalls + 1

\* browser_open()
ToolBrowserOpen ==
    /\ ToolGuard("browser_open")
    /\ \E launches \in BOOLEAN :
         LET s == SetupWebdriver(browser, launches)
         IN  /\ browser' = s.browser
             /\ driversAlive' = driversAlive + s.created
    /\ UNCHANGED <<pc, task, current_input, agent_configs, idx, functions,
                   exc, result, log, calls, requests, reply, editor, terminal,
                   editorsLaunched, terminalsLaunched, editorFirst,
                   editorLater, lastRet, progVars, loopVars>>

\* browser_search(query)
ToolBrowserSearch ==
    /\ ToolGuard("browser_search")
    /\ \E launches \in BOOLEAN, page \in PageOutcomes :
         LET s == BrowserSearch(browser, launches, page)
         IN  /\ browser' = s.browser
             /\ driversAlive' = driversAlive + s.created
    /\ UNCHANGED <<pc, task, current_input, agent_configs, idx, functions,
                   exc, result, log, calls, requests, reply, editor, terminal,
                   editorsLaunched, terminalsLaunched, editorFirst,
                   editorLater, lastRet, progVars, loopVars>>

\* the bookkeeping of one maybe_open_editor call
EditorCall(filename, popen) ==
    LET e == MaybeOpenEditor(editor, filename, popen)
    IN  /\ editor' = e.editor
        /\ editorsLaunched' = editorsLaunched + e.launched
        /\ IF editorFirst = NoRet
           THEN editorFirst' = e.ret /\ UNCHANGED editorLater
           ELSE editorLater' = e.ret /\ UNCHANGED editorFirst

\* code_write(code, filename): the file is written and the editor asked
\* for, or open()/write() raises and the editor is not asked for
ToolCodeWrite ==
    /\ ToolGuard("code_write")
    /\ \E written \in BOOLEAN, filename \in Filenames,
          popen \in [1..Len(editor_commands) -> PopenOutcomes] :
         IF written
         THEN EditorCall(filename, popen)
         ELSE UNCHANGED <<editor, editorsLaunched, editorFirst, editorLater>>
    /\ UNCHANGED <<pc, task, current_input, agent_configs, idx, functions,
                   exc, result, log, calls, requests, reply, browser, terminal,
                   driversAlive, terminalsLaunched, lastRet, progVars, loopVars>>

\* code_save, terminal_run, git_command, take_screenshot
ToolStateless ==
    /\ \E tool \in StatelessTools : ToolGuard(tool)
    /\ UNCHANGED <<pc, task, current_input, agent_configs, idx, functions,
                   exc, result, log, calls, requests, reply, resVars, progVars,
                   loopVars>>

(***************************************************************************)
(* The program.                                                            *)
(***************************************************************************)
Next ==
    \/ \E line \in Tasks : ReadTask(line)
    \/ InputError
    \/ ProgressStart
    \/ AnalyzeTask
    \/ AnalyzeReturn
    \/ ReturnInput
    \/ CreateAgent
    \/ SearchUnbound
    \/ SearchStep
    \/ GenericStep
    \/ ToolBrowserOpen
    \/ ToolBrowserSearch
    \/ ToolCodeWrite
    \/ ToolStateless
    \/ SwarmReturn
    \/ SwarmRaise
    \/ Except
    \/ ProgressStop
    \/ ProgressJoin
    \/ Cleanup
    \/ Deliver
    \/ ProgressTick
    \/ ProgressExit

Spec == Init /\ [][Next]_vars

\* the program with its threads scheduled fairly: an indicator thread that
\* can leave its loop does, and a join that can return does
SpecFair == Spec /\ WF_vars(ProgressExit) /\ WF_vars(ProgressJoin)

(***************************************************************************)
(* The resource manager called directly, by a host that holds the          *)
(* SupremeAgent object, while no orchestration run is under way.           *)
(***************************************************************************)
ApiMaybeOpenEditor ==
    /\ pc = "prompt"
    /\ \E filename \in Filenames,
          popen \in [1..Len(editor_commands) -> PopenOutcomes] :
         EditorCall(filename, popen)
    /\ UNCHANGED <<pc, runVars, browser, terminal, driversAlive,
                   terminalsLaunched, lastRet, progVars, loopVars>>

ApiMaybeOpenTerminal ==
    /\ pc = "prompt"
    /\ \E popen \in [1..Len(terminal_commands) -> PopenOutcomes] :
         LET t == MaybeOpenTerminal(terminal, popen)
         IN  /\ terminal' = t.terminal
             /\ terminalsLaunched' = terminalsLaunched + t.launched
             /\ lastRet' = t.ret
    /\ UNCHANGED <<pc, runVars, browser, editor, driversAlive,
                   editorsLaunched, editorFirst, editorLater, progVars,
                   loopVars>>

NextApi ==
    \/ Next
    \/ ApiMaybeOpenEditor
    \/ ApiMaybeOpenTerminal

SpecApi == Init /\ [][NextApi]_vars

(***************************************************************************)
(* Properties.                                                             *)
(***************************************************************************)
ReturnPath == {"finally", "join", "close", "returned"}

\* C1: when orchestrate_task is back at its caller, on whatever path, the
\* progress indicator is stopped (flag set, thread ended), the browser
\* handle is absent and no driver launched during the call is left alive
C1_CleanupOnReturn ==
    pc = "returned" =>
        /\ stop
        /\ thread = "finished"
        /\ browser = "None"
        /\ driversAlive = 0

\* a run that launched a driver for its search step and then ended in the
\* exception handler is back at the caller
C1_Witness ==
    /\ pc = "returned"
    /\ exc.raised
    /\ \E i \in DOMAIN calls :
         calls[i].op = "browser_search" /\ ~calls[i].failed

\* C2: a failure reported by browser_search (no driver, or an exception
\* caught and stringified) is never the result of the run: the same
\* configuration goes on to the generic handling
C2_FailureNotReturned ==
    pc = "returned" =>
        \A i \in DOMAIN calls :
            (calls[i].op = "browser_search" /\ calls[i].failed) =>
                /\ result.text # calls[i].ret
                /\ i < Len(calls)
                /\ calls[i + 1].idx = calls[i].idx
                /\ calls[i + 1].op # "browser_search"

\* C3: orchestrate_task always returns a value; when an exception was
\* raised inside the run it was logged once and the value is the text
\* "Error executing task: " followed by the exception's text
C3_NoPropagation ==
    pc = "returned" =>
        /\ result.kind = "return"
        /\ exc.raised =>
             /\ result.text = T_TaskError \o exc.msg
             /\ Cardinality({i \in DOMAIN log :
                               log[i] = "ERROR Task orchestration error"}) = 1

\* the KeyError of a search agent without the search tool came back as text
C3_Witness ==
    /\ pc = "returned"
    /\ exc = Raised(T_KeyError)
    /\ result.kind = "return"

\* C4: the list analyze_task returns is never empty
C4_NonEmpty ==
    pc = "loop" => Len(agent_configs) >= 1

\* a reply of the expected structure: a JSON array of objects each of which
\* deserializes into an AgentConfig
ExpectedStructure(r) ==
    /\ r.kind = "json"
    /\ r.body.kind = "list"
    /\ \A i \in 1..Len(r.body.items) : Deserializable(r.body.items[i])

\* C5: for a task without the keywords, a reply that is not of the expected
\* structure makes analyze_task return the single default configuration
\* (default_agent, tools [browser_search]) and log an error
C5_FallbackOnMalformed ==
    [][(pc = "parse" /\ pc' = "loop" /\ ~ExpectedStructure(reply)) =>
          /\ Len(agent_configs') = 1
          /\ agent_configs'[1].name = "default_agent"
          /\ agent_configs'[1].tools = PyList(<<"browser_search">>)
          /\ log' = Append(log, "ERROR Task analysis error")]_vars

UpperOf(c) ==
    IF \E i \in 1..Len(LowerCase) : LowerCase[i] = c
    THEN UpperCase[CHOOSE i \in 1..Len(LowerCase) : LowerCase[i] = c]
    ELSE c

\* the word occurs in s, each letter in either case
ContainsAnyCase(s, word) ==
    \E i \in 0..(Len(s) - Len(word)) :
        \A j \in 1..Len(word) :
            s[i + j] = word[j] \/ s[i + j] = UpperOf(word[j])

\* C6: for a task containing "search" or "find" in any letter case,
\* analyze_task returns exactly one configuration, named search_agent, with
\* the tool list [browser_search]
C6_SearchKeyword ==
    (/\ pc \in {"parse", "loop"}
     /\ ContainsAnyCase(task, T_search) \/ ContainsAnyCase(task, T_find)) =>
        /\ pc = "loop"
        /\ Len(agent_configs) = 1
        /\ agent_configs[1].name = "search_agent"
        /\ agent_configs[1].tools = PyList(<<"browser_search">>)

\* the analyzer has answered for the task typed in capitals
C6_Witness ==
    /\ pc = "loop"
    /\ task = <<"S", "E", "A", "R", "C", "H">>
    /\ Len(agent_configs) = 1

\* C7 as stated: every maybe_open_editor call after the first returns the
\* "already open" status, whatever the first call came to
C7_SecondAlreadyOpen ==
    editorLater # NoRet => editorLater.msg = "Editor already open with"

\* C7 as amended: when the first maybe_open_editor call launched an editor,
\* every later call returns the "already open" status, whatever file names
\* are passed
C7_AlreadyOpenAfterLaunch ==
    (editorLater # NoRet /\ editorFirst.msg = "Editor opened for") =>
        editorLater.msg = "Editor already open with"

\* a first call opened one file and a later call for another file was told
\* the editor is already open
C7_Witness ==
    /\ editorFirst = [msg |-> "Editor opened for", arg |-> "a.py"]
    /\ editorLater = [msg |-> "Editor already open with", arg |-> "b.py"]

\* C8: at most one browser driver is alive at any time, at most one editor
\* and one terminal process are launched in the process lifetime, and a
\* marker once set is never changed, later requests launching nothing
C8_ResourceInvariant ==
    /\ [](/\ driversAlive <= 1
          /\ driversAlive = 1 => browser # "None"
          /\ editorsLaunched <= 1
          /\ terminalsLaunched <= 1
          /\ editor = "None" <=> editorsLaunched = 0
          /\ terminal = "None" <=> terminalsLaunched = 0)
    /\ [][/\ editor # "None" =>
               editor' = editor /\ editorsLaunched' = editorsLaunched
          /\ terminal # "None" =>
               terminal' = terminal /\ terminalsLaunched' = terminalsLaunched
          /\ browser # "None" => driversAlive' <= driversAlive]_vars

\* each of the three resources is held, and a second request for the editor
\* and for the terminal has been answered "already open"
C8_Witness ==
    /\ driversAlive = 1
    /\ editorsLaunched = 1
    /\ terminalsLaunched = 1
    /\ editorLater.msg = "Editor already open with"
    /\ lastRet.msg = "Terminal already open"

\* C9: a search_agent configuration that holds the search tool has it
\* called with current_input (the task for the first configuration, the
\* previous step's last message otherwise); a returned text without
\* "Error" is at once the result of the run, with no framework call for
\* that configuration and no later configuration executed
C9_ShortCircuit ==
    /\ \A i \in DOMAIN calls :
         calls[i].op = "browser_search" =>
             /\ calls[i].arg = IF i = 1 THEN task ELSE calls[i - 1].ret
             /\ agent_configs[calls[i].idx].name = "search_agent"
             /\ ~Contains(calls[i].ret, T_Error) =>
                  /\ i = Len(calls)
                  /\ idx = calls[i].idx
                  /\ pc \in ReturnPath
                  /\ ~exc.raised
                  /\ result = [kind |-> "return", text |-> calls[i].ret]
    /\ (/\ pc \in {"generic", "swarm"}
        /\ agent_configs[idx].name = "search_agent") =>
           \E i \in DOMAIN calls :
               calls[i].op = "browser_search" /\ calls[i].idx = idx

\* a search step in first place succeeded and the run returned its text
\* with a second configuration left unexecuted
C9_Witness ==
    /\ pc = "returned"
    /\ Len(agent_configs) = 2
    /\ Len(calls) = 1
    /\ calls[1].op = "browser_search"
    /\ result.text = calls[1].ret

\* the tool names a configuration lists
Listed(config) == {config.tools.items[i] : i \in 1..Len(config.tools.items)}

\* C10: the agent built from a configuration binds exactly the listed
\* tools that are keys of the registry, and a configuration that lists
\* tool names, known or not, is built without an exception
C10_BindsRegistered ==
    /\ pc \in {"search", "generic", "swarm"} =>
         /\ functions \subseteq available_tools
         /\ functions = Listed(agent_configs[idx]) \cap available_tools
    /\ (pc = "except" /\ exc = Raised(T_NotIterable)) =>
         agent_configs[idx].tools.kind # "list"

\* an agent was built from a configuration listing an unknown tool
C10_Witness ==
    /\ pc = "generic"
    /\ "fly" \in Listed(agent_configs[idx])
    /\ functions = {"take_screenshot", "browser_open"}

\* the line is the word, each letter in either case
EqualsAnyCase(s, word) ==
    /\ Len(s) = Len(word)
    /\ \A j \in 1..Len(word) : s[j] = word[j] \/ s[j] = UpperOf(word[j])

\* C11: a line equal to "exit" in any letter case prints "Goodbye!" and
\* ends the loop with no orchestration call; any other line starts one
\* orchestrate_task call with the line as task and as initial input, and
\* the loop reads again only after that call is over; nothing but such a
\* line ends the loop, an exception of input() or of the call included
C11_InteractionLoop ==
    [][/\ (pc # "exited" /\ pc' = "exited") =>
             /\ pc = "prompt"
             /\ EqualsAnyCase(task_input', T_exit)
             /\ output' = "Goodbye!"
             /\ UNCHANGED <<runVars, resVars, progVars>>
       /\ (pc = "prompt" /\ task_input' # task_input) =>
             IF EqualsAnyCase(task_input', T_exit)
             THEN pc' = "exited"
             ELSE /\ pc' = "start"
                  /\ task' = task_input'
                  /\ current_input' = task_input'
       /\ (pc # "start" /\ pc' = "start") =>
             pc = "prompt" /\ task_input' # task_input
       /\ (pc # "prompt" /\ pc' = "prompt") => pc = "returned"
       /\ (pc = "prompt" /\ task_input' = task_input) => pc' = "prompt"
       /\ pc = "exited" => pc' = "exited"]_vars

\* the loop has ended on the line "Exit"
C11_Witness ==
    /\ pc = "exited"
    /\ task_input = <<"E", "x", "i", "t">>
    /\ output = "Goodbye!"

\* C12: close_webdriver called with no browser handle raises nothing and
\* leaves the browser, editor and terminal fields as they were
C12_CloseAbsentNoOp ==
    [][(pc = "close" /\ pc' = "returned" /\ browser = "None") =>
          /\ browser' = browser
          /\ editor' = editor
          /\ terminal' = terminal
          /\ driversAlive' = driversAlive
          /\ result' = result
          /\ result'.kind = "return"]_vars

\* a run that executed no configuration, so held no browser when its
\* finally block called close_webdriver, is back at the caller
C12_Witness ==
    /\ pc = "returned"
    /\ requests = 1
    /\ Len(agent_configs) = 0
    /\ browser = "None"
    /\ result.kind = "return"

\* the steps of orchestrate_task inside its try block
InTry == {"analyze", "parse", "loop", "search", "generic", "swarm", "except"}

\* C13: the indicator thread is running, its flag clear, during every step
\* of a run; once the flag is set the thread executes no further iteration
\* and ends, so the join in stop() completes; orchestrate_task is never
\* back at its caller with the thread alive; and at most one indicator
\* thread is alive at any time over any sequence of runs
C13_IndicatorHandoff ==
    /\ [](/\ pc \in InTry \cup {"finally"} => thread = "alive" /\ ~stop
          /\ pc \in {"close", "returned"} => thread = "finished" /\ stop
          /\ pc \in {"prompt", "exited"} => thread # "alive"
          /\ threadsAlive <= 1
          /\ threadsAlive = 1 <=> thread = "alive")
    /\ [][(stop /\ thread = "alive") =>
              \/ thread' = "finished"
              \/ thread' = thread /\ current_stage' = current_stage]_vars
    /\ ((pc = "join") ~> (pc = "close"))

\* in a run after the first, the join has returned from an ended thread
C13_Witness ==
    /\ pc = "close"
    /\ output = "result"
    /\ stop
    /\ thread = "finished"
    /\ threadsAlive = 0

\* the entries of calls that are conversation runs
IsRun(i) == calls[i].op # "browser_search"

\* the run entries before entry i
RunsBefore(i) == {j \in 1..(i - 1) : IsRun(j)}

\* the hand-off between the steps that were executed: list order, each
\* configuration at most once, the first step given the original input,
\* every conversation run given the last message of the run before it, and
\* the default configuration never on the search path
StepsInOrder ==
    /\ \A i, j \in DOMAIN calls :
          /\ i < j => calls[i].idx <= calls[j].idx
          /\ (i < j /\ calls[i].idx = calls[j].idx) => ~IsRun(i) /\ IsRun(j)
    /\ \A i \in DOMAIN calls :
          /\ calls[i].idx \in 1..Len(agent_configs)
          /\ calls[i].idx <= idx
          /\ i = 1 => calls[i].arg = task
          /\ (IsRun(i) /\ RunsBefore(i) = {}) => calls[i].arg = task
          /\ (IsRun(i) /\ RunsBefore(i) # {}) =>
                LET prev == CHOOSE j \in RunsBefore(i) :
                                \A k \in RunsBefore(i) : k <= j
                IN  /\ calls[i].arg = calls[prev].ret
                    /\ calls[prev].idx = calls[i].idx - 1
          /\ agent_configs[calls[i].idx] = DefaultConfig => IsRun(i)

\* a run is back at the caller with neither an exception nor a
\* short-circuit behind it
EndedNormally ==
    /\ pc = "returned"
    /\ ~exc.raised
    /\ calls # <<>> => IsRun(Len(calls))

\* the value of a run that ended normally is the last message of the
\* conversation run of the final configuration
ReturnsFinalMessage ==
    /\ calls # <<>>
    /\ calls[Len(calls)].idx = Len(agent_configs)
    /\ result = [kind |-> "return", text |-> calls[Len(calls)].ret]

\* C14: configurations are executed in list order, each at most once; the
\* first step receives the original input and every generic step the last
\* message of the step before it; a run that ends without short-circuit
\* or exception returns the last message of the final configuration's
\* conversation run; the default configuration takes the generic path
C14_LinearHandOff ==
    /\ StepsInOrder
    /\ EndedNormally => ReturnsFinalMessage

\* the same hand-off for runs whose configuration list is not empty
C14_HandOffOfNonEmptyList ==
    /\ StepsInOrder
    /\ (EndedNormally /\ agent_configs # <<>>) => ReturnsFinalMessage

\* the run has not reached the analysis yet
BeforeAnalysis == {"prompt", "start", "analyze", "exited"}

\* C15: a run whose task has no search keyword issues exactly one
\* hosted-model request, whether the reply is usable, unusable or an
\* error; a run whose task has a keyword issues none; a request is
\* never repeated
C15_OneRequest ==
    /\ pc \in BeforeAnalysis => requests = 0
    /\ pc = "parse" => requests = 1 /\ reply \in ModelReplies
    /\ pc \notin BeforeAnalysis =>
          requests = IF \/ ContainsAnyCase(task, T_search)
                       \/ ContainsAnyCase(task, T_find)
                    THEN 0 ELSE 1

\* the request failed and the run went on to its end on the fallback
C15_Witness ==
    /\ pc = "returned"
    /\ requests = 1
    /\ agent_configs = <<DefaultConfig>>
    /\ Len(log) > 0
====
